---- MODULE Spec2Model ----
(***************************************************************************)
(* A model of src/app.py: the tokenizer (tokenize_text), the crawler       *)
(* (crawl_dc_minor with its nested parse_ts), the aggregation              *)
(* (build_daily_word_stats) and the two queries (get_range_word_stats,     *)
(* get_day_word_stats).                                                    *)
(*                                                                         *)
(* Python strings are sequences of one-character strings, so that          *)
(* tokenizing, stripping, strptime and str(date) are computed character by *)
(* character.  None and NaT are values of their own.                       *)
(***************************************************************************)
EXTENDS Integers, Sequences, FiniteSets, TLC

VARIABLES
    \* ---- crawl_dc_minor
    pc,          \* position in crawl_dc_minor: "loop", "rows", "done"
    start_page,  \* argument
    end_page,    \* argument
    page,        \* the loop variable of `for page in range(...)`
    trs,         \* the rows of the current listing page still to be visited
    rows,        \* the list `rows` of appended dicts
    events,      \* what the process did to the outside: requests and sleeps
    warnings,    \* the st.warning calls, in order
    html,        \* page -> what the site served for the listing (history)
    result,      \* the returned DataFrame, a sequence of records
    \* ---- parse_ts applied to one string
    ts_pc, ts_raw, ts_out, referenceNow,
    \* ---- tokenize_text applied to one input
    tk_pc, tk_text, tk_stopwords, tk_min_len, tk_out,
    \* ---- build_daily_word_stats and the queries
    st_pc, df_posts, df_daily, built, q_args, q_out

crawlVars == <<pc, start_page, end_page, page, trs, rows, events, warnings, html, result>>
tsVars    == <<ts_pc, ts_raw, ts_out, referenceNow>>
tkVars    == <<tk_pc, tk_text, tk_stopwords, tk_min_len, tk_out>>
stVars    == <<st_pc, df_posts, df_daily, built, q_args, q_out>>
vars      == <<crawlVars, tsVars, tkVars, stVars>>

\* Python's None where a string is expected: no string, since the strings are
\* sequences of one-character strings.
None == <<"None">>

\* None where a set is expected
NoneSet == {None}

\* pandas.NaT
NaT == [NaT |-> TRUE]

\* The state of a part of the program that a specification leaves out.
IdleCrawl ==
    /\ pc = "idle" /\ start_page = 1 /\ end_page = 1 /\ page = 1
    /\ trs = <<>> /\ rows = <<>> /\ events = <<>> /\ warnings = <<>>
    /\ html = <<>> /\ result = <<>>

IdleTs == ts_pc = "idle" /\ ts_raw = <<>> /\ ts_out = NaT /\ referenceNow = NaT

IdleTk ==
    /\ tk_pc = "idle" /\ tk_text = <<>> /\ tk_stopwords = {}
    /\ tk_min_len = 2 /\ tk_out = <<>>

IdleSt ==
    /\ st_pc = "idle" /\ df_posts = <<>> /\ df_daily = <<>> /\ built = <<>>
    /\ q_args = <<>> /\ q_out = <<>>

-----------------------------------------------------------------------------
(* Strings *)

Digits == {"0", "1", "2", "3", "4", "5", "6", "7", "8", "9"}
DigitSeq == <<"0", "1", "2", "3", "4", "5", "6", "7", "8", "9">>
DigitVal(c) == (CHOOSE i \in 1..10 : DigitSeq[i] = c) - 1

\* str.isspace for the characters the model uses
IsSpace(c) == c \in {" ", "\t", "\n"}

RECURSIVE LStrip(_)
LStrip(s) == IF s # <<>> /\ IsSpace(Head(s)) THEN LStrip(Tail(s)) ELSE s

RECURSIVE RStrip(_)
RStrip(s) ==
    IF s # <<>> /\ IsSpace(s[Len(s)]) THEN RStrip(SubSeq(s, 1, Len(s) - 1)) ELSE s

\* str.strip()
Strip(s) == RStrip(LStrip(s))

\* the number of leading digits of s from position i
RECURSIVE DigitRun(_, _)
DigitRun(s, i) ==
    IF i <= Len(s) /\ s[i] \in Digits THEN 1 + DigitRun(s, i + 1) ELSE 0

\* the number of leading whitespace characters of s from position i
RECURSIVE SpaceRun(_, _)
SpaceRun(s, i) ==
    IF i <= Len(s) /\ IsSpace(s[i]) THEN 1 + SpaceRun(s, i + 1) ELSE 0

\* int(s[i .. i+n-1])
RECURSIVE IntAt(_, _, _)
IntAt(s, i, n) ==
    IF n = 0 THEN 0 ELSE IntAt(s, i, n - 1) * 10 + DigitVal(s[i + n - 1])

-----------------------------------------------------------------------------
(* datetime.strptime, for the directives and literals of parse_ts's formats *)

\* The formats of parse_ts as token sequences: a directive, "ws" for the
\* blank of the format (which strptime turns into \s+), or a literal.
Formats ==
    << <<"Y", ".", "m", ".", "d", "ws", "H", ":", "M">>,
       <<"Y", "-", "m", "-", "d", "ws", "H", ":", "M">>,
       <<"Y", ".", "m", ".", "d">>,
       <<"Y", "-", "m", "-", "d">> >>

Directives == {"Y", "m", "d", "H", "M"}

\* Whether a run of n digits with value v matches the directive's pattern:
\*   %Y \d\d\d\d      %m 1[0-2]|0[1-9]|[1-9]     %d 3[0-1]|[1-2]\d|0[1-9]|[1-9]
\*   %H 2[0-3]|[0-1]\d|\d                        %M [0-5]\d|\d
FieldOk(dir, n, v) ==
    CASE dir = "Y" -> n = 4
      [] dir = "m" -> (n = 1 /\ v >= 1) \/ (n = 2 /\ v >= 1 /\ v <= 12)
      [] dir = "d" -> (n = 1 /\ v >= 1) \/ (n = 2 /\ v >= 1 /\ v <= 31)
      [] dir = "H" -> n = 1 \/ (n = 2 /\ v <= 23)
      [] dir = "M" -> n = 1 \/ (n = 2 /\ v <= 59)

NoMatch == [NoMatch |-> TRUE]

\* Match tokens fmt[j..] against s[i..] with the fields found so far in acc;
\* the whole of s must be consumed ("unconverted data remains" otherwise).
RECURSIVE Match(_, _, _, _, _)
Match(s, i, fmt, j, acc) ==
    IF j > Len(fmt) THEN (IF i = Len(s) + 1 THEN acc ELSE NoMatch)
    ELSE LET t == fmt[j] IN
      IF t \in Directives THEN
        LET n == DigitRun(s, i) IN
          IF n > 0 /\ FieldOk(t, n, IntAt(s, i, n))
          THEN Match(s, i + n, fmt, j + 1, [acc EXCEPT ![t] = IntAt(s, i, n)])
          \* %d also takes a blank followed by one digit 1-9
          ELSE IF t = "d" /\ n = 0 /\ i + 1 <= Len(s) /\ s[i] = " "
                  /\ s[i + 1] \in Digits \ {"0"} /\ DigitRun(s, i + 1) = 1
          THEN Match(s, i + 2, fmt, j + 1, [acc EXCEPT ![t] = DigitVal(s[i + 1])])
          ELSE NoMatch
      ELSE IF t = "ws" THEN
        LET n == SpaceRun(s, i) IN
          IF n > 0 THEN Match(s, i + n, fmt, j + 1, acc) ELSE NoMatch
      ELSE IF i <= Len(s) /\ s[i] = t THEN Match(s, i + 1, fmt, j + 1, acc)
      ELSE NoMatch

IsLeap(y) == (y % 4 = 0 /\ y % 100 # 0) \/ y % 400 = 0

DaysInMonth(y, m) ==
    IF m = 2 THEN (IF IsLeap(y) THEN 29 ELSE 28)
    ELSE IF m \in {4, 6, 9, 11} THEN 30 ELSE 31

\* datetime.strptime(x, fmt): the datetime, or NoMatch where it raises
\* ValueError (no match, unconverted data, or a date that does not exist).
strptime(x, fmt) ==
    LET f == Match(x, 1, fmt, 1, [Y |-> 1900, m |-> 1, d |-> 1, H |-> 0, M |-> 0]) IN
      IF f = NoMatch THEN NoMatch
      ELSE IF f.Y < 1 \/ f.d > DaysInMonth(f.Y, f.m) THEN NoMatch
      ELSE f

\* parse_ts with the formats tried from position k on
RECURSIVE parse_ts_from(_, _)
parse_ts_from(x, k) ==
    IF k > Len(Formats) THEN NaT
    ELSE IF strptime(x, Formats[k]) # NoMatch THEN strptime(x, Formats[k])
    ELSE parse_ts_from(x, k + 1)

\* A parse_ts that answers the current date instead of NaT.
parse_ts_default_now(x) ==
    LET s == Strip(IF x = None THEN <<>> ELSE x) IN
      IF parse_ts_from(s, 1) = NaT
      THEN [Y |-> 2024, m |-> 6, d |-> 1, H |-> 0, M |-> 0]
      ELSE parse_ts_from(s, 1)

\* crawl_dc_minor.parse_ts
parse_ts(x) ==
    LET s == Strip(IF x = None THEN <<>> ELSE x) IN parse_ts_from(s, 1)

-----------------------------------------------------------------------------
(* parse_ts on its own: one string in, one value out *)

S4(a, b, c, d) == <<a, b, c, d>>

Years  == {S4("2", "0", "2", "4"), S4("2", "0", "2", "3")}
Seps   == {".", "-"}
Months == {<<"0", "5">>, <<"5">>, <<"0", "2">>, <<"1", "3">>}
Days   == {<<"3", "0">>, <<"3">>, <<" ", "3">>, <<"2", "9">>, <<"0", "0">>}
Times  == { <<>>,
            <<" ", "1", "4", ":", "3", "0">>,
            <<" ", "1", "4", ":", "3", "0", ":", "0", "5">>,
            <<" ", " ", "7", ":", "5">>,
            <<" ", "2", "4", ":", "0", "0">>,
            <<"T", "1", "4", ":", "3", "0">> }

OtherRaws ==
    { None, <<>>,
      <<"1", "4", ":", "3", "0">>,
      <<"9", ":", "0", "5">>,
      <<"0", "5", ".", "3", "0">>,
      <<"n", "o", "t", "-", "a", "-", "d", "a", "t", "e">>,
      <<" ", "2", "0", "2", "4", ".", "0", "5", ".", "3", "0", "\n">>,
      <<"2", "0", "2", "4", "0", "5", "3", "0">>,
      <<"0", "0", "0", "0", ".", "0", "5", ".", "3", "0">>,
      <<"2", "0", "2", "4", "5", ".", "0", "5", ".", "3", "0">> }

RawInputs ==
    { y \o <<s1>> \o m \o <<s2>> \o d \o t :
        y \in Years, s1 \in Seps, m \in Months, s2 \in Seps, d \in Days, t \in Times }
    \cup OtherRaws

Date(y, m, d) == [Y |-> y, m |-> m, d |-> d]

\* the calendar date of a datetime (datetime.date()), NaT for NaT
DateOf(ts) == IF ts = NaT THEN NaT ELSE Date(ts.Y, ts.m, ts.d)

Nows == {Date(2024, 6, 1), Date(2024, 5, 30)}

InitTs ==
    /\ IdleCrawl /\ IdleTk /\ IdleSt
    /\ ts_pc = "in"
    /\ ts_raw \in RawInputs
    /\ referenceNow \in Nows
    /\ ts_out = NaT

ParseTs ==
    /\ ts_pc = "in"
    /\ ts_out' = parse_ts(ts_raw)
    /\ ts_pc' = "out"
    /\ UNCHANGED <<ts_raw, referenceNow>>
    /\ UNCHANGED <<crawlVars, tkVars, stVars>>

-----------------------------------------------------------------------------
(* tokenize_text *)

UpperSeq == <<"A", "B", "C", "D", "E", "F", "G", "H", "I", "J", "K", "L", "M",
              "N", "O", "P", "Q", "R", "S", "T", "U", "V", "W", "X", "Y", "Z">>
LowerSeq == <<"a", "b", "c", "d", "e", "f", "g", "h", "i", "j", "k", "l", "m",
              "n", "o", "p", "q", "r", "s", "t", "u", "v", "w", "x", "y", "z">>
Upper == {UpperSeq[i] : i \in 1..26}
Lower == {LowerSeq[i] : i \in 1..26}

\* Characters outside ASCII are written by their code point.  The ranges of
\* TOKEN_PATTERN beyond ASCII: U+AC00-U+D7A3, U+3131-U+314E, U+314F-U+3163;
\* HangulSeq lists, in code point order, the ends of these ranges and the
\* characters of DEFAULT_STOPWORDS.
HangulSeq ==
    <<"U+3131", "U+314E", "U+314F", "U+3163", "U+AC00", "U+AC70", "U+ACE0", "U+ADF8",
      "U+ADFC", "U+AE08", "U+B0B4", "U+B0E5", "U+B298", "U+B370", "U+B610", "U+B7FC",
      "U+B9AC", "U+BC1C", "U+C5B4", "U+C624", "U+C758", "U+C774", "U+C77C", "U+C800",
      "U+C81C", "U+C880", "U+C9C0", "U+D7A3">>
Hangul == {HangulSeq[i] : i \in DOMAIN HangulSeq}

\* TOKEN_PATTERN's character class [0-9A-Za-z...]
TokenChar(c) == c \in Digits \cup Upper \cup Lower \cup Hangul

\* str.lower() of one character
LowerChar(c) ==
    IF c \in Upper THEN LowerSeq[CHOOSE i \in 1..26 : UpperSeq[i] = c] ELSE c

LowerStr(s) == [i \in 1..Len(s) |-> LowerChar(s[i])]

\* the length of the run of token characters of s from position i
RECURSIVE TokenRun(_, _)
TokenRun(s, i) ==
    IF i <= Len(s) /\ TokenChar(s[i]) THEN 1 + TokenRun(s, i + 1) ELSE 0

\* TOKEN_PATTERN.finditer(text): the maximal runs, left to right
RECURSIVE FindAll(_, _)
FindAll(s, i) ==
    IF i > Len(s) THEN <<>>
    ELSE LET n == TokenRun(s, i) IN
      IF n = 0 THEN FindAll(s, i + 1)
      ELSE <<SubSeq(s, i, i + n - 1)>> \o FindAll(s, i + n)

\* re.fullmatch(r"[A-Za-z]+", token)
AllLetters(token) ==
    token # <<>> /\ \A i \in 1..Len(token) : token[i] \in Upper \cup Lower

\* lines 50-51: lowercase the token if it is letters only
Normalize(token) == IF AllLetters(token) THEN LowerStr(token) ELSE token

\* lines 53-56: the two `continue`s
Keep(token, stopwords, min_len) ==
    /\ ~(Len(token) < min_len)
    /\ token \notin stopwords

RECURSIVE FilterTokens(_, _, _)
FilterTokens(ms, stopwords, min_len) ==
    IF ms = <<>> THEN <<>>
    ELSE LET token == Normalize(Head(ms)) IN
      (IF Keep(token, stopwords, min_len) THEN <<token>> ELSE <<>>)
        \o FilterTokens(Tail(ms), stopwords, min_len)

tokenize_text(text, stopwords, min_len) ==
    IF text = None THEN <<>>
    ELSE FilterTokens(FindAll(text, 1),
                      IF stopwords = NoneSet THEN {} ELSE stopwords, min_len)

MaxTextLen == 3
MaxMinLen == 2

TkAlphabet == {"A", "b", "1", "U+AC00", " ", "!"}

RECURSIVE TextsUpTo(_)
TextsUpTo(n) ==
    IF n = 0 THEN {<<>>}
    ELSE TextsUpTo(n - 1) \cup {Append(t, c) : t \in TextsUpTo(n - 1), c \in TkAlphabet}

TkStopwordSets == {NoneSet, {}, {<<"b">>}, {<<"a", "b">>, <<"A", "1">>, <<"U+AC00">>}}

InitTk ==
    /\ IdleCrawl /\ IdleTs /\ IdleSt
    /\ tk_pc = "in"
    /\ tk_text \in TextsUpTo(MaxTextLen) \cup {None}
    /\ tk_stopwords \in TkStopwordSets
    /\ tk_min_len \in 0..MaxMinLen
    /\ tk_out = <<>>

Tokenize ==
    /\ tk_pc = "in"
    /\ tk_out' = tokenize_text(tk_text, tk_stopwords, tk_min_len)
    /\ tk_pc' = "out"
    /\ UNCHANGED <<tk_text, tk_stopwords, tk_min_len>>
    /\ UNCHANGED <<crawlVars, tsVars, stVars>>

-----------------------------------------------------------------------------
(* crawl_dc_minor *)

MaxPage == 2
\* the rows the site serves during one run, all listing pages together
MaxRows == 2

Pages == 1..MaxPage

NoCell == [cell |-> FALSE]
Cell(title, text) == [cell |-> TRUE, title |-> title, text |-> text]

HHMM == <<"1", "4", ":", "3", "0">>

\* td.gall_date variants: the full time in the title attribute; no title
\* attribute and a bare time as text; an empty title attribute and a date
\* as text inside blanks
DateCells ==
    [ full  |-> Cell(S4("2", "0", "2", "4") \o <<"-", "0", "5", "-", "3", "0", " ">> \o HHMM, HHMM),
      today |-> Cell(None, HHMM),
      text  |-> Cell(<<>>, <<" ">> \o S4("2", "0", "2", "4") \o <<".", "0", "5", ".", "2", "9", "\n">>) ]

\* href variants, as chunks: scheme-relative, root-relative, absolute
Hrefs ==
    [ rel2 |-> <<"//", "gall.dcinside.com", "/", "view">>,
      rel1 |-> <<"/", "view">>,
      abs  |-> <<"https:", "//", "gall.dcinside.com", "/", "view">> ]

\* The kinds of tr.ub-content rows a listing page is made of.  a_tag is
\* "none" (no a.ub-word), "nohref" (no or empty href) or "ok".
TrKinds ==
    { [us_post |-> TRUE,  a_tag |-> "none",   href |-> None,       date_td |-> NoCell],
      [us_post |-> TRUE,  a_tag |-> "nohref", href |-> <<>>,       date_td |-> DateCells.full],
      [us_post |-> TRUE,  a_tag |-> "ok",     href |-> Hrefs.rel2, date_td |-> DateCells.full],
      [us_post |-> TRUE,  a_tag |-> "ok",     href |-> Hrefs.rel1, date_td |-> DateCells.today],
      [us_post |-> FALSE, a_tag |-> "ok",     href |-> Hrefs.abs,  date_td |-> DateCells.text],
      [us_post |-> FALSE, a_tag |-> "ok",     href |-> Hrefs.rel1, date_td |-> NoCell] }

\* a_tag.get_text(strip=True), the same for every row
Title == <<"A", "b", " ", "1">>

\* A listing page of n rows; row i of page p links to post number <<p, i>>.
ListingsOf(p, n) ==
    { [i \in 1..n |->
         [us_post |-> k[i].us_post, a_tag |-> k[i].a_tag, date_td |-> k[i].date_td,
          title |-> Title,
          href |-> IF k[i].a_tag = "ok" THEN k[i].href \o <<p, i>> ELSE k[i].href]] :
      k \in [1..n -> TrKinds] }

NotFetched == [status |-> "none"]

RECURSIVE SumLen(_, _)
SumLen(h, p) ==
    IF p = 0 THEN 0
    ELSE (IF h[p].status = "ok" THEN Len(h[p].trs) ELSE 0) + SumLen(h, p - 1)

ServedRows == SumLen(html, MaxPage)

\* line 98: soup.select("tr.ub-content.us-post") or soup.select("tr.ub-content")
SelectRows(h) ==
    LET primary == SelectSeq(h.trs, LAMBDA tr : tr.us_post) IN
      IF primary # <<>> THEN primary ELSE h.trs

\* lines 112-116
PostUrl(href) ==
    IF Len(href) >= 1 /\ href[1] = "//" THEN <<"https:">> \o href
    ELSE IF Len(href) >= 1 /\ href[1] = "/"
         THEN <<"https:", "//", "gall.dcinside.com">> \o href
    ELSE href

\* lines 119-124
TimestampText(tr) ==
    IF tr.date_td = NoCell THEN <<>>
    ELSE IF tr.date_td.title # None /\ tr.date_td.title # <<>> THEN tr.date_td.title
    ELSE Strip(tr.date_td.text)

Ev(kind, p, url, ok) == [kind |-> kind, page |-> p, url |-> url, ok |-> ok]

Body == <<"b", "o", "d", "y">>

InitCrawl ==
    /\ IdleTs /\ IdleTk /\ IdleSt
    /\ pc = "loop"
    /\ start_page \in Pages
    /\ end_page \in Pages
    /\ page = start_page
    /\ trs = <<>>
    /\ rows = <<>>
    /\ events = <<>>
    /\ warnings = <<>>
    /\ html = [p \in Pages |-> NotFetched]
    /\ result = <<>>

\* A failed listing fetch that ends the loop.
ListFetchFail_Break ==
    /\ pc = "loop"
    /\ page <= end_page
    /\ events' = Append(events, Ev("list", page, None, FALSE))
    /\ html' = [html EXCEPT ![page] = [status |-> "fail"]]
    /\ warnings' = Append(warnings, [kind |-> "list", page |-> page, url |-> None])
    /\ page' = end_page + 1
    /\ UNCHANGED <<pc, start_page, end_page, trs, rows, result>>
    /\ UNCHANGED <<tsVars, tkVars, stVars>>

\* lines 88-93: requests.get or raise_for_status raises; warn and continue
ListFetchFail ==
    /\ pc = "loop"
    /\ page <= end_page
    /\ events' = Append(events, Ev("list", page, None, FALSE))
    /\ html' = [html EXCEPT ![page] = [status |-> "fail"]]
    /\ warnings' = Append(warnings, [kind |-> "list", page |-> page, url |-> None])
    /\ page' = page + 1
    /\ UNCHANGED <<pc, start_page, end_page, trs, rows, result>>
    /\ UNCHANGED <<tsVars, tkVars, stVars>>

\* lines 88-98: the listing is fetched and its rows selected
ListFetchOk ==
    /\ pc = "loop"
    /\ page <= end_page
    /\ \E n \in 0..(MaxRows - ServedRows) :
         \E listing \in ListingsOf(page, n) :
           LET h == [status |-> "ok", marker |-> FALSE, trs |-> listing] IN
             /\ html' = [html EXCEPT ![page] = h]
             /\ trs' = SelectRows(h)
    /\ events' = Append(events, Ev("list", page, None, TRUE))
    /\ pc' = "rows"
    /\ UNCHANGED <<start_page, end_page, page, rows, warnings, result>>
    /\ UNCHANGED <<tsVars, tkVars, stVars>>

\* lines 88-98 when the site answers 200 with its client-side-redirect stub:
\* the raw HTML holds the marker and no tr.  Nothing in crawl_dc_minor reads
\* the marker, so the page is handled as a listing without rows.
ListFetchBlocked ==
    /\ pc = "loop"
    /\ page <= end_page
    /\ LET h == [status |-> "ok", marker |-> TRUE, trs |-> <<>>] IN
         /\ html' = [html EXCEPT ![page] = h]
         /\ trs' = SelectRows(h)
    /\ events' = Append(events, Ev("list", page, None, TRUE))
    /\ pc' = "rows"
    /\ UNCHANGED <<start_page, end_page, page, rows, warnings, result>>
    /\ UNCHANGED <<tsVars, tkVars, stVars>>

\* lines 102-104
RowNoAnchor ==
    /\ pc = "rows" /\ trs # <<>>
    /\ Head(trs).a_tag = "none"
    /\ trs' = Tail(trs)
    /\ UNCHANGED <<pc, start_page, end_page, page, rows, events, warnings, html, result>>
    /\ UNCHANGED <<tsVars, tkVars, stVars>>

\* lines 107-109
RowNoHref ==
    /\ pc = "rows" /\ trs # <<>>
    /\ Head(trs).a_tag = "nohref"
    /\ trs' = Tail(trs)
    /\ UNCHANGED <<pc, start_page, end_page, page, rows, events, warnings, html, result>>
    /\ UNCHANGED <<tsVars, tkVars, stVars>>

Row(tr, content, p) ==
    [timestamp_raw |-> TimestampText(tr), title |-> tr.title, content |-> content,
     url |-> PostUrl(tr.href), page |-> p]

\* A failed detail fetch that drops the row.
RowDetailFail_Drop ==
    /\ pc = "rows" /\ trs # <<>>
    /\ Head(trs).a_tag = "ok"
    /\ LET url == PostUrl(Head(trs).href) IN
         /\ events' = events \o <<Ev("sleep", page, None, TRUE), Ev("detail", page, url, FALSE)>>
         /\ warnings' = Append(warnings, [kind |-> "detail", page |-> page, url |-> url])
    /\ trs' = Tail(trs)
    /\ UNCHANGED <<pc, start_page, end_page, page, rows, html, result>>
    /\ UNCHANGED <<tsVars, tkVars, stVars>>

\* lines 127-148 when the detail request raises: warn, append with content ""
RowDetailFail ==
    /\ pc = "rows" /\ trs # <<>>
    /\ Head(trs).a_tag = "ok"
    /\ LET url == PostUrl(Head(trs).href) IN
         /\ events' = events \o <<Ev("sleep", page, None, TRUE), Ev("detail", page, url, FALSE)>>
         /\ warnings' = Append(warnings, [kind |-> "detail", page |-> page, url |-> url])
    /\ rows' = Append(rows, Row(Head(trs), <<>>, page))
    /\ trs' = Tail(trs)
    /\ UNCHANGED <<pc, start_page, end_page, page, html, result>>
    /\ UNCHANGED <<tsVars, tkVars, stVars>>

\* lines 127-148 when the detail page is fetched: div.write_div may be absent
RowDetailOk ==
    /\ pc = "rows" /\ trs # <<>>
    /\ Head(trs).a_tag = "ok"
    /\ events' = events \o <<Ev("sleep", page, None, TRUE),
                             Ev("detail", page, PostUrl(Head(trs).href), TRUE)>>
    /\ \E content_div \in {None, Body} :
         rows' = Append(rows, Row(Head(trs), IF content_div = None THEN <<>> ELSE content_div, page))
    /\ trs' = Tail(trs)
    /\ UNCHANGED <<pc, start_page, end_page, page, warnings, html, result>>
    /\ UNCHANGED <<tsVars, tkVars, stVars>>

\* line 150: the sleep that ends a page's iteration
PageEnd ==
    /\ pc = "rows" /\ trs = <<>>
    /\ events' = Append(events, Ev("sleep", page, None, TRUE))
    /\ page' = page + 1
    /\ pc' = "loop"
    /\ UNCHANGED <<start_page, end_page, trs, rows, warnings, html, result>>
    /\ UNCHANGED <<tsVars, tkVars, stVars>>

\* lines 152-171: parse the timestamps, drop the rows left without one
Finish(rs) ==
    LET parsed == [i \in 1..Len(rs) |->
                     [timestamp |-> parse_ts(rs[i].timestamp_raw), title |-> rs[i].title,
                      content |-> rs[i].content, url |-> rs[i].url, page |-> rs[i].page]]
    IN SelectSeq(parsed, LAMBDA r : r.timestamp # NaT)

Return ==
    /\ pc = "loop"
    /\ page > end_page
    /\ result' = Finish(rows)
    /\ pc' = "done"
    /\ UNCHANGED <<start_page, end_page, page, trs, rows, events, warnings, html>>
    /\ UNCHANGED <<tsVars, tkVars, stVars>>

-----------------------------------------------------------------------------
(* build_daily_word_stats *)

DEFAULT_STOPWORDS ==
    { <<"U+ADF8", "U+B0E5">>, <<"U+ADFC", "U+B370">>, <<"U+ADF8", "U+B9AC", "U+ACE0">>,
      <<"U+B610">>, <<"U+C880">>, <<"U+C774", "U+AC70">>, <<"U+C800", "U+AC70">>,
      <<"U+AC70", "U+C758">>, <<"U+C9C0", "U+AE08">>, <<"U+C624", "U+B298">>,
      <<"U+B0B4", "U+C77C">>, <<"U+C5B4", "U+C81C">>, <<"U+ADF8", "U+B7FC">>,
      <<"U+C81C", "U+BC1C">>,
      <<"t", "h", "e">>, <<"a", "n", "d">>, <<"o", "r">>, <<"b", "u", "t">>,
      <<"a">>, <<"a", "n">>, <<"t", "o">>, <<"o", "f">> }

\* the default of min_len
MinLenDefault == 2

\* The characters of the model in code point order, for comparing strings.
OrdSeq ==
    <<"\t", "\n", " ", "!", "-", ".">> \o DigitSeq \o <<":">> \o UpperSeq \o LowerSeq \o HangulSeq

Ord(c) == CHOOSE i \in DOMAIN OrdSeq : OrdSeq[i] = c

\* a < b for Python strings
RECURSIVE StrLess(_, _)
StrLess(a, b) ==
    IF b = <<>> THEN FALSE
    ELSE IF a = <<>> THEN TRUE
    ELSE IF Head(a) = Head(b) THEN StrLess(Tail(a), Tail(b))
    ELSE Ord(Head(a)) < Ord(Head(b))

StrLE(a, b) == a = b \/ StrLess(a, b)

DateLess(a, b) ==
    \/ a.Y < b.Y
    \/ a.Y = b.Y /\ a.m < b.m
    \/ a.Y = b.Y /\ a.m = b.m /\ a.d < b.d

\* the strings of S in ascending order: the i-th has i - 1 strings below it
SortWords(S) ==
    [i \in 1..Cardinality(S) |->
       CHOOSE x \in S : Cardinality({y \in S : StrLess(y, x)}) = i - 1]

\* the dates of S in ascending order
SortDates(S) ==
    [i \in 1..Cardinality(S) |->
       CHOOSE x \in S : Cardinality({y \in S : DateLess(y, x)}) = i - 1]

RECURSIVE Concat(_)
Concat(ss) == IF ss = <<>> THEN <<>> ELSE Head(ss) \o Concat(Tail(ss))

\* fillna("").astype(str)
FillStr(v) == IF v = None THEN <<>> ELSE v

\* lines 196-200
PostText(post) == FillStr(post.title) \o <<" ">> \o FillStr(post.content)

\* lines 202-204: `stopwords or DEFAULT_STOPWORDS`
PostTokens(post, stopwords, min_len) ==
    tokenize_text(PostText(post),
                  IF stopwords = NoneSet \/ stopwords = {} THEN DEFAULT_STOPWORDS ELSE stopwords,
                  min_len)

\* a fraction count / total, kept exact
Frac(n, d) == [n |-> n, d |-> d]

\* A group's post count that leaves out the posts without tokens.
TotalPostsWithTokens(grp, stopwords, min_len) ==
    Len(SelectSeq(grp, LAMBDA post : PostTokens(post, stopwords, min_len) # <<>>))

\* line 210
TotalPosts(grp, stopwords, min_len) == Len(grp)

\* line 211: grp["token_count"].sum()
TotalWords(grp, stopwords, min_len) ==
    Len(Concat([i \in 1..Len(grp) |-> PostTokens(grp[i], stopwords, min_len)]))

\* lines 210-231 for one date: the rows of the date's group, none when the
\* group has no token
WordGroup(date, grp, stopwords, min_len) ==
    LET exploded == Concat([i \in 1..Len(grp) |-> PostTokens(grp[i], stopwords, min_len)])
        total_posts == TotalPosts(grp, stopwords, min_len)
        total_words == TotalWords(grp, stopwords, min_len)
        words == SortWords({exploded[i] : i \in DOMAIN exploded})
    IN [k \in 1..Len(words) |->
          LET count == Cardinality({i \in DOMAIN exploded : exploded[i] = words[k]}) IN
            [date |-> date, word |-> words[k], count |-> count,
             freq |-> IF total_words > 0 THEN Frac(count, total_words) ELSE Frac(0, 1),
             total_words |-> total_words, total_posts |-> total_posts]]

\* df.groupby("date"): the posts of one date, in order; NaT is no key
GroupOf(df, date) ==
    SelectSeq(df, LAMBDA post : post.timestamp # NaT /\ DateOf(post.timestamp) = date)

build_daily_word_stats(df, stopwords, min_len) ==
    IF df = <<>> THEN <<>>
    ELSE LET dates == SortDates({DateOf(df[i].timestamp) : i \in DOMAIN df} \ {NaT}) IN
      Concat([k \in 1..Len(dates) |->
                WordGroup(dates[k], GroupOf(df, dates[k]), stopwords, min_len)])

-----------------------------------------------------------------------------
(* get_range_word_stats, get_day_word_stats *)

Digit2(n) == <<DigitSeq[((n \div 10) % 10) + 1], DigitSeq[(n % 10) + 1]>>

\* str(date) and strftime("%Y-%m-%d"): YYYY-MM-DD
DateStr(d) == Digit2(d.Y \div 100) \o Digit2(d.Y) \o <<"-">> \o Digit2(d.m) \o <<"-">> \o Digit2(d.d)

\* lines 258-260, 309-311: the copy with its date column as strings
WithDateStr(df) ==
    [i \in 1..Len(df) |-> [df[i] EXCEPT !.date = DateStr(df[i].date)]]

\* A range mask that leaves the end date out.
RangeMaskEndExclusive(date, start_date, end_date) ==
    StrLE(start_date, date) /\ StrLess(date, end_date)

\* line 262
RangeMask(date, start_date, end_date) ==
    StrLE(start_date, date) /\ StrLE(date, end_date)

FracLess(a, b) == a.n * b.d < b.n * a.d

RECURSIVE SumCount(_)
SumCount(rs) == IF rs = <<>> THEN 0 ELSE Head(rs).count + SumCount(Tail(rs))

\* the sum of the fractions of rs
RECURSIVE SumFreq(_)
SumFreq(rs) ==
    IF rs = <<>> THEN Frac(0, 1)
    ELSE LET t == SumFreq(Tail(rs)) IN
      Frac(Head(rs).freq.n * t.d + t.n * Head(rs).freq.d, Head(rs).freq.d * t.d)

MaxFreq(rs) ==
    LET fs == {rs[i].freq : i \in DOMAIN rs} IN
      CHOOSE f \in fs : \A g \in fs : ~FracLess(f, g)

\* lines 268-277: one row per word, words ascending
Grouped(sub) ==
    LET words == SortWords({sub[i].word : i \in DOMAIN sub}) IN
      [k \in 1..Len(words) |->
         LET rs == SelectSeq(sub, LAMBDA r : r.word = words[k]) IN
           [word |-> words[k],
            sum_count |-> SumCount(rs),
            days_appeared |-> Cardinality({rs[i].date : i \in DOMAIN rs}),
            avg_freq |-> Frac(SumFreq(rs).n, SumFreq(rs).d * Len(rs)),
            max_freq |-> MaxFreq(rs)]]

\* whether row a goes before row b when sorting by column key, descending:
\* the counts are integers, the frequencies fractions
KeyGreater(a, b, key) ==
    IF key \in {"sum_count", "count"} THEN a[key] > b[key] ELSE FracLess(b[key], a[key])

\* The orders rs.sort_values(key, ascending=False) may leave rs in: the sort
\* is not stable, so rows with equal keys come in any order.
sort_values(rs, key) ==
    { [i \in 1..Len(rs) |-> rs[f[i]]] :
        f \in { g \in [1..Len(rs) -> 1..Len(rs)] :
                  /\ \A i, j \in 1..Len(rs) : i # j => g[i] # g[j]
                  /\ \A i, j \in 1..Len(rs) : i < j => ~KeyGreater(rs[g[j]], rs[g[i]], key) } }

\* lines 293-294, 330-331
Head_n(rs, top_n) ==
    IF top_n # 0 /\ top_n > 0 THEN SubSeq(rs, 1, IF top_n < Len(rs) THEN top_n ELSE Len(rs))
    ELSE rs

Ok(rs) == [status |-> "ok", rows |-> rs]
ValueError == [status |-> "ValueError", rows |-> <<>>]

\* The results get_range_word_stats may return.
get_range_word_stats(df_in, start_date, end_date, min_days, top_n, sort_by) ==
    LET df == WithDateStr(df_in)
        sub == SelectSeq(df, LAMBDA r : RangeMask(r.date, start_date, end_date))
        grouped == SelectSeq(Grouped(sub), LAMBDA g : g.days_appeared >= min_days)
    IN IF sub = <<>> THEN {Ok(<<>>)}
       ELSE IF grouped = <<>> THEN {Ok(grouped)}
       ELSE IF sort_by = "sum_count"
            THEN {Ok(Head_n(o, top_n)) : o \in sort_values(grouped, "sum_count")}
       ELSE IF sort_by = "avg_freq"
            THEN {Ok(Head_n(o, top_n)) : o \in sort_values(grouped, "avg_freq")}
       ELSE IF sort_by = "max_freq"
            THEN {Ok(Head_n(o, top_n)) : o \in sort_values(grouped, "max_freq")}
       ELSE {ValueError}

\* The results get_day_word_stats may return.
get_day_word_stats(df_in, target_date, min_count, top_n, sort_by) ==
    LET df == WithDateStr(df_in)
        onday == SelectSeq(df, LAMBDA r : r.date = target_date)
        sub == SelectSeq(onday, LAMBDA r : r.count >= min_count)
    IN IF onday = <<>> THEN {Ok(<<>>)}
       ELSE IF sub = <<>> THEN {Ok(sub)}
       ELSE IF sort_by = "count"
            THEN {Ok(Head_n(o, top_n)) : o \in sort_values(sub, "count")}
       ELSE IF sort_by = "freq"
            THEN {Ok(Head_n(o, top_n)) : o \in sort_values(sub, "freq")}
       ELSE {ValueError}

-----------------------------------------------------------------------------
(* The pipeline of main(): posts, then the daily table, then one query *)

MaxPosts == 2
\* min_days, min_count and top_n are drawn up to MaxArg
MaxArg == 2

Stamp(y, m, d, H, M) == [Y |-> y, m |-> m, d |-> d, H |-> H, M |-> M]

PostKinds ==
    { [timestamp |-> Stamp(2024, 5, 30, 9, 0),
       title |-> <<"A", "b", " ", "c", "d">>, content |-> <<>>],
      [timestamp |-> Stamp(2024, 5, 30, 14, 30),
       title |-> <<"a", "b">>, content |-> <<"c", "d", "!", "a", "b">>],
      [timestamp |-> Stamp(2024, 5, 31, 0, 0),
       title |-> <<"A", "B", " ", "e", "f">>, content |-> None],
      [timestamp |-> Stamp(2024, 5, 31, 23, 59),
       title |-> <<"t", "h", "e", " ", "a">>, content |-> <<"U+C624", "U+B298", "!">>],
      [timestamp |-> NaT,
       title |-> <<"a", "b">>, content |-> <<>>],
      [timestamp |-> Stamp(2024, 6, 1, 12, 0),
       title |-> None, content |-> <<"e", "f", " ", "a", "b", " ", "c", "d", " ", "e", "f">>] }

RECURSIVE PostsUpTo(_)
PostsUpTo(n) ==
    IF n = 0 THEN {<<>>}
    ELSE PostsUpTo(n - 1) \cup {Append(ps, k) : ps \in PostsUpTo(n - 1), k \in PostKinds}

QueryDates == {Date(2024, 5, 30), Date(2024, 5, 31), Date(2024, 6, 1)}

RangeSortKeys == {"sum_count", "avg_freq", "max_freq"}
DaySortKeys == {"count", "freq"}

InitStats ==
    /\ IdleCrawl /\ IdleTs /\ IdleTk
    /\ st_pc = "posts"
    /\ df_posts \in PostsUpTo(MaxPosts)
    /\ df_daily = <<>>
    /\ built = <<>>
    /\ q_args = <<>>
    /\ q_out = <<>>

\* main(): without posts it returns before anything is computed
NoPosts ==
    /\ st_pc = "posts"
    /\ df_posts = <<>>
    /\ st_pc' = "stopped"
    /\ UNCHANGED <<df_posts, df_daily, built, q_args, q_out>>
    /\ UNCHANGED <<crawlVars, tsVars, tkVars>>

\* main(): df_daily = build_daily_word_stats(df_posts), and it returns if the
\* table is empty; built keeps what the call returned
Build ==
    /\ st_pc = "posts"
    /\ df_posts # <<>>
    /\ df_daily' = build_daily_word_stats(df_posts, NoneSet, MinLenDefault)
    /\ built' = df_daily'
    /\ st_pc' = IF df_daily' = <<>> THEN "stopped" ELSE "built"
    /\ UNCHANGED <<df_posts, q_args, q_out>>
    /\ UNCHANGED <<crawlVars, tsVars, tkVars>>

\* a call of get_range_word_stats; the dates are passed as strftime gives them
RangeQuery ==
    /\ st_pc = "built"
    /\ \E start, end \in QueryDates, min_days \in 1..MaxArg, top_n \in 0..MaxArg,
          sort_by \in RangeSortKeys \cup {"count"} :
         /\ q_args' = [kind |-> "range", start |-> start, end |-> end, min |-> min_days,
                       top_n |-> top_n, sort_by |-> sort_by]
         /\ q_out' \in get_range_word_stats(df_daily, DateStr(start), DateStr(end),
                                            min_days, top_n, sort_by)
    /\ st_pc' = "queried"
    /\ UNCHANGED <<df_posts, df_daily, built>>
    /\ UNCHANGED <<crawlVars, tsVars, tkVars>>

\* a call of get_day_word_stats
DayQuery ==
    /\ st_pc = "built"
    /\ \E target \in QueryDates, min_count \in 1..MaxArg, top_n \in 0..MaxArg,
          sort_by \in DaySortKeys \cup {"sum_count"} :
         /\ q_args' = [kind |-> "day", start |-> target, end |-> target, min |-> min_count,
                       top_n |-> top_n, sort_by |-> sort_by]
         /\ q_out' \in get_day_word_stats(df_daily, DateStr(target), min_count, top_n, sort_by)
    /\ st_pc' = "queried"
    /\ UNCHANGED <<df_posts, df_daily, built>>
    /\ UNCHANGED <<crawlVars, tsVars, tkVars>>

-----------------------------------------------------------------------------
(* Specifications *)

NextCrawl ==
    \/ ListFetchFail
    \/ ListFetchOk
    \/ ListFetchBlocked
    \/ RowNoAnchor
    \/ RowNoHref
    \/ RowDetailFail
    \/ RowDetailOk
    \/ PageEnd
    \/ Return

SpecCrawl == InitCrawl /\ [][NextCrawl]_vars

NextTs == ParseTs

SpecTs == InitTs /\ [][NextTs]_vars

NextTk == Tokenize

SpecTk == InitTk /\ [][NextTk]_vars

NextStats ==
    \/ NoPosts
    \/ Build
    \/ RangeQuery
    \/ DayQuery

SpecStats == InitStats /\ [][NextStats]_vars

-----------------------------------------------------------------------------
(* Properties of crawl_dc_minor *)

Range == start_page..end_page

ListEvents(p) == {i \in DOMAIN events : events[i].kind = "list" /\ events[i].page = p}

ListWarnings(p) == {i \in DOMAIN warnings : warnings[i].kind = "list" /\ warnings[i].page = p}

\* the rows the parser selected on page p
Selected(p) == IF html[p].status = "ok" THEN SelectRows(html[p]) ELSE <<>>

HasLink(tr) == tr.a_tag = "ok"

Resolvable(tr) == parse_ts(TimestampText(tr)) # NaT

PostsOf(url) == {k \in DOMAIN result : result[k].url = url}

DetailEvents(url) == {i \in DOMAIN events : events[i].kind = "detail" /\ events[i].url = url}

DetailFailed(url) == \E i \in DetailEvents(url) : ~events[i].ok

IsRequest(e) == e.kind \in {"list", "detail"}

\* C1: a failed listing fetch does not end the run.  When crawl_dc_minor has
\* returned, every page of the range was requested exactly once, a page whose
\* listing fetch failed has exactly one warning and any other page none, and
\* every selected row of a fetched page that has a link and a resolvable date
\* has a post in the result.
C1_ListingFailureNonFatal ==
    pc = "done" =>
      \A p \in Range :
        /\ Cardinality(ListEvents(p)) = 1
        /\ Cardinality(ListWarnings(p)) = IF html[p].status = "fail" THEN 1 ELSE 0
        /\ \A i \in DOMAIN Selected(p) :
             LET tr == Selected(p)[i] IN
               HasLink(tr) /\ Resolvable(tr) => PostsOf(PostUrl(tr.href)) # {}

\* a run that returned a post of a page after a page whose listing failed
C1_Witness ==
    /\ pc = "done"
    /\ \E p \in Range, k \in DOMAIN result :
         html[p].status = "fail" /\ result[k].page > p

\* C2: a row with a link and a resolvable date whose detail fetch failed has
\* exactly one post in the result, with an empty body; the rows after it on
\* the page were still requested, and so were the pages after it.
C2_DetailFailureKeepsPost ==
    pc = "done" =>
      \A p \in Range : \A i \in DOMAIN Selected(p) :
        LET tr == Selected(p)[i] IN
          HasLink(tr) /\ Resolvable(tr) /\ DetailFailed(PostUrl(tr.href)) =>
            /\ Cardinality(PostsOf(PostUrl(tr.href))) = 1
            /\ \A k \in PostsOf(PostUrl(tr.href)) : result[k].content = <<>>
            /\ \A j \in DOMAIN Selected(p) :
                 j > i /\ HasLink(Selected(p)[j]) =>
                   DetailEvents(PostUrl(Selected(p)[j].href)) # {}
            /\ \A q \in Range : q > p => ListEvents(q) # {}

\* a run in which a detail fetch failed, its post was returned, and a later
\* row's detail page was requested
C2_Witness ==
    /\ pc = "done"
    /\ \E i, j \in DOMAIN events :
         /\ i < j
         /\ events[i].kind = "detail" /\ ~events[i].ok
         /\ events[j].kind = "detail"
         /\ PostsOf(events[i].url) # {}

\* C3: once a fetched listing page holds the client-side-redirect marker, no
\* further listing or detail request is issued.
C3_NoRequestAfterBlockedPage ==
    \A i, j \in DOMAIN events :
      ( /\ i < j
        /\ events[i].kind = "list" /\ events[i].ok
        /\ html[events[i].page].marker )
      => ~IsRequest(events[j])

\* the values of the maximal digit runs of s from position i, left to right
RECURSIVE NumRuns(_, _)
NumRuns(s, i) ==
    IF i > Len(s) THEN <<>>
    ELSE LET n == DigitRun(s, i) IN
      IF n = 0 THEN NumRuns(s, i + 1)
      ELSE <<IntAt(s, i, n)>> \o NumRuns(s, i + n)

\* C4: every returned post has a timestamp that is not NaT and whose year,
\* month and day are the first three numbers of the raw date string of its
\* own row; a row whose raw date string holds fewer than three numbers has
\* no post in the result.
C4_DatesParsedOrDropped ==
    pc = "done" =>
      /\ \A k \in DOMAIN result :
           /\ result[k].timestamp # NaT
           /\ \E i \in DOMAIN rows :
                LET ns == NumRuns(rows[i].timestamp_raw, 1) IN
                  /\ rows[i].url = result[k].url
                  /\ Len(ns) >= 3
                  /\ <<result[k].timestamp.Y, result[k].timestamp.m, result[k].timestamp.d>>
                       = SubSeq(ns, 1, 3)
      /\ \A i \in DOMAIN rows :
           Len(NumRuns(rows[i].timestamp_raw, 1)) < 3 => PostsOf(rows[i].url) = {}

\* a run that collected a row with a bare time and one with a full date
C4_Witness ==
    /\ pc = "done"
    /\ result # <<>>
    /\ \E i \in DOMAIN rows : rows[i].timestamp_raw = HHMM

\* C9: no two requests are issued without a sleep between them.
C9_SleepBetweenRequests ==
    \A i \in DOMAIN events :
      i < Len(events) => ~(IsRequest(events[i]) /\ IsRequest(events[i + 1]))

-----------------------------------------------------------------------------
(* Properties of parse_ts *)

Shape(s) == [i \in 1..Len(s) |-> IF s[i] \in Digits THEN "d" ELSE s[i]]

DateShapes == { <<"d", "d", "d", "d", sep, "d", "d", sep, "d", "d">> : sep \in Seps }

TimeShapes == { <<>>, <<" ", "d", "d", ":", "d", "d">>,
                <<" ", "d", "d", ":", "d", "d", ":", "d", "d">> }

\* The policy of the specification's TimestampNormalizer: a bare HH:MM is
\* referenceNow's date; one of the six absolute forms is its calendar date;
\* anything else is null.
PolicyNormalize(raw, now) ==
    IF raw = None THEN NaT
    ELSE IF Shape(raw) = <<"d", "d", ":", "d", "d">> THEN now
    ELSE IF /\ Shape(raw) \in {ds \o tm : ds \in DateShapes, tm \in TimeShapes}
            /\ IntAt(raw, 1, 4) >= 1
            /\ IntAt(raw, 6, 2) \in 1..12
            /\ IntAt(raw, 9, 2) \in 1..DaysInMonth(IntAt(raw, 1, 4), IntAt(raw, 6, 2))
    THEN Date(IntAt(raw, 1, 4), IntAt(raw, 6, 2), IntAt(raw, 9, 2))
    ELSE NaT

\* C5: parse_ts resolves a raw string as the ordered policy says.
C5_NormalizationPolicy ==
    ts_pc = "out" => DateOf(ts_out) = PolicyNormalize(ts_raw, referenceNow)

-----------------------------------------------------------------------------
(* Properties of tokenize_text *)

AsciiAlnum(token) == \A k \in DOMAIN token : token[k] \in Digits \cup Upper \cup Lower

\* C10: no returned token made of ASCII letters and digits only holds an
\* uppercase letter, and no returned token is shorter than min_len or a
\* member of the stopword set.
C10_TokensLowercasedAndFiltered ==
    tk_pc = "out" =>
      \A i \in DOMAIN tk_out :
        /\ AsciiAlnum(tk_out[i]) => \A k \in DOMAIN tk_out[i] : tk_out[i][k] \notin Upper
        /\ Len(tk_out[i]) >= tk_min_len
        /\ tk_stopwords # NoneSet => tk_out[i] \notin tk_stopwords

-----------------------------------------------------------------------------
(* Properties of build_daily_word_stats and the queries *)

DateLE(a, b) == a = b \/ DateLess(a, b)

\* the sum of the counts of the rows of df_daily with index in S
RECURSIVE SumCounts(_)
SumCounts(S) ==
    IF S = {} THEN 0
    ELSE LET i == CHOOSE x \in S : TRUE IN df_daily[i].count + SumCounts(S \ {i})

DateRows(d) == {i \in DOMAIN df_daily : df_daily[i].date = d}

PostsOn(d) ==
    {k \in DOMAIN df_posts :
       df_posts[k].timestamp # NaT /\ DateOf(df_posts[k].timestamp) = d}

\* C6: in the table build_daily_word_stats returned, a (date, word) pair has
\* at most one row and its count is at least 1; the counts of a date's rows
\* add up to the date's total_words; a date's total_posts is the number of
\* input posts whose timestamp falls on the date.
C6_DailyTotals ==
    st_pc \in {"built", "queried", "stopped"} =>
      \A i \in DOMAIN df_daily :
        /\ df_daily[i].count >= 1
        /\ \A j \in DOMAIN df_daily :
             df_daily[j].date = df_daily[i].date /\ df_daily[j].word = df_daily[i].word
               => j = i
        /\ SumCounts(DateRows(df_daily[i].date)) = df_daily[i].total_words
        /\ df_daily[i].total_posts = Cardinality(PostsOn(df_daily[i].date))

\* a table with a date of two posts, one of them without any token, and a
\* table with a word counted twice on a date of two posts
C6_Witness ==
    /\ st_pc = "built"
    /\ \E i \in DOMAIN df_daily :
         /\ df_daily[i].total_posts = 2
         /\ \/ df_daily[i].count >= 2
            \/ \E k \in PostsOn(df_daily[i].date) :
                 PostTokens(df_posts[k], NoneSet, MinLenDefault) = <<>>

\* C7: a query whose sort key is not one of its enumerated values fails with
\* ValueError, whatever the table and the other arguments.
C7_InvalidSortKeyRejected ==
    ( /\ st_pc = "queried"
      /\ \/ q_args.kind = "range" /\ q_args.sort_by \notin RangeSortKeys
         \/ q_args.kind = "day" /\ q_args.sort_by \notin DaySortKeys )
    => q_out.status = "ValueError"

\* the rows of word w dated within the queried range, the dates compared as
\* calendar dates
InRangeRows(w) ==
    {i \in DOMAIN df_daily :
       /\ df_daily[i].word = w
       /\ DateLE(q_args.start, df_daily[i].date)
       /\ DateLE(df_daily[i].date, q_args.end)}

DaysIn(w) == Cardinality({df_daily[i].date : i \in InRangeRows(w)})

Qualifying == {w \in {df_daily[i].word : i \in DOMAIN df_daily} : DaysIn(w) >= q_args.min}

\* C8: a range query sorted by sum_count, with start <= end and min_days >= 1,
\* returns rows of distinct words that appear on at least min_days dates of
\* the range, each with the sum of its counts and the number of its dates in
\* the range, in non-increasing order of sum_count; with top_n = 0 every such
\* word is returned, otherwise the first top_n, and no word left out has a
\* greater sum than a word returned; the table passed in is unchanged.
C8_RangeQueryBySumCount ==
    ( /\ st_pc = "queried"
      /\ q_args.kind = "range"
      /\ q_args.sort_by = "sum_count"
      /\ q_args.min >= 1
      /\ DateLE(q_args.start, q_args.end) )
    => /\ q_out.status = "ok"
       /\ \A i \in DOMAIN q_out.rows :
            /\ q_out.rows[i].word \in Qualifying
            /\ q_out.rows[i].sum_count = SumCounts(InRangeRows(q_out.rows[i].word))
            /\ q_out.rows[i].days_appeared = DaysIn(q_out.rows[i].word)
       /\ \A i, j \in DOMAIN q_out.rows :
            i < j => /\ q_out.rows[i].sum_count >= q_out.rows[j].sum_count
                     /\ q_out.rows[i].word # q_out.rows[j].word
       /\ Len(q_out.rows) =
            IF q_args.top_n = 0 \/ q_args.top_n > Cardinality(Qualifying)
            THEN Cardinality(Qualifying) ELSE q_args.top_n
       /\ \A w \in Qualifying \ {q_out.rows[i].word : i \in DOMAIN q_out.rows} :
            \A i \in DOMAIN q_out.rows : SumCounts(InRangeRows(w)) <= q_out.rows[i].sum_count
       /\ df_daily = built

\* a range of two dates, three qualifying words, the first two returned, the
\* first with the greater sum
C8_Witness ==
    /\ st_pc = "queried"
    /\ q_args.kind = "range"
    /\ q_args.sort_by = "sum_count"
    /\ DateLess(q_args.start, q_args.end)
    /\ q_args.top_n = 2
    /\ Cardinality(Qualifying) = 3
    /\ Len(q_out.rows) = 2
    /\ q_out.rows[1].sum_count > q_out.rows[2].sum_count

====
